---- MODULE Spec2Model ----
(***************************************************************************)
(* A model of fake-traffic-go's traffic generator: the TrafficGenerator    *)
(* (src/main.go 161-336), its BrowserUser sessions                         *)
(* (src/internal/generator.go 168-271), the HTTPClient's request callback  *)
(* (src/unnamed/part_001 40-69) and the Config store (src/config).         *)
(*                                                                         *)
(* Every goroutine is a process with a program counter: the caller of the  *)
(* generator's API (a driver), the manageUsers loops and the BrowserUser   *)
(* goroutines.  A step of the model is one visible effect of the code: a   *)
(* mutex acquisition, a channel close, a WaitGroup operation, a map        *)
(* update, a select.  The program's clock is a counter of ticks of         *)
(* 1/UnitsPerSecond seconds.                                               *)
(***************************************************************************)
EXTENDS Integers, FiniteSets, Sequences, Bags, TLC

\* ---------------------------------------------------------------- bounds
\* Config.ConcurrentUsers ranges over -1..MaxTarget.
MaxTarget == 2
\* BrowserUser objects that exist at the same time (tracked or still running).
MaxObjs == 2
\* manageUsers goroutines that exist at the same time.
MaxLoops == 2
\* Responses counted within one measurement window.
MaxCount == 2
\* Clock resolution; the clock's last value, in seconds; and how many ticks past a
\* whole minute the clock is read at.
UnitsPerSecond == 2
MaxSeconds == 122
ClockSlack == 3
\* Sessions running in the initial state of SpecStats.
NumStatSessions == 2
\* SpecReconcile: Config.ConcurrentUsers ranges over -1..ReconTarget, and
\* ReconObjs BrowserUser objects exist at the same time.
ReconTarget == 5
ReconObjs == 6
\* Bits of one octet of an address: an address has IPv4len octets, and a uint32
\* holds IPv4len * OctetBits bits.
OctetBits == 1

\* URLs the URLManager has loaded, at most; and the period of its generator.
CorpusSize == 2
RandPeriod == 3
\* FilterURLs: candidates in a list, at most; options.Workers ranges over
\* 0..MaxWorkers.
MaxURLs == 2
MaxWorkers == 2
\* SpecCallers: goroutines that call Start and Stop at the same time.
MaxCallers == 2

\* ------------------------------------------------------ program constants
\* GetActualRequestsPerSecond: "if elapsed < 1" and "if elapsed > 60".
MinElapsedSeconds == 1
ResetAfterSeconds == 60
\* ipToUint32 and uint32ToIP: the octets ip[0] .. ip[3].
IPv4len == 4
\* FilterURLs: "resp.StatusCode < 200 || resp.StatusCode >= 400".
StatusOK == 200
StatusBadRequest == 400

Drivers == {1}
Callers == 1..MaxCallers
Loops == 1..MaxLoops
TargetValues == -1..MaxTarget
ReconValues == -1..ReconTarget
MaxTime == MaxSeconds * UnitsPerSecond
\* The instants the clock is read at: the first ticks of every minute.
ClockValues == {t \in 0..MaxTime : t % (60 * UnitsPerSecond) <= ClockSlack}

VARIABLES
    config,          \* Config: [Enabled, ConcurrentUsers]
    spoofer,         \* g.ipSpoofer: [startIP, endIP]
    sourceIP,        \* what the last GetRandomIP returned
    users,           \* g.users: handle -> the BrowserUser and its goroutine
    orphans,         \* the BrowserUsers g.users dropped whose goroutines still run
    usersMutex,      \* g.usersMutex: its holder
    wg,              \* g.wg: the WaitGroup's counter
    running,         \* g.running
    stopChanClosed,  \* g.stopChan has been closed
    requestCount,    \* g.requestCount
    requestsMutex,   \* g.requestsMutex: its holder
    requestsStart,   \* g.requestsStart, in clock ticks
    now,             \* time.Now(), in clock ticks
    loop,            \* the manageUsers goroutines
    drv,             \* the callers of Start, Stop and GetStats
    ret,             \* what each caller's last call returned
    panicked,        \* a goroutine panicked: the process is gone
    recorded,        \* history: RecordRequest calls completed
    consumed,        \* history: counts taken by the reads that reset the window
    settled,         \* history: the clamped target of the last tick that completed
    urlManager,      \* g.urlManager: the URLManager and its callers inside GetRandomURL
    filter           \* one call of urls.FilterURLs: its locals and its goroutines

cfgVars == <<config, spoofer, sourceIP, urlManager, filter>>
sessVars == <<users, orphans>>
genVars == <<usersMutex, wg, running, stopChanClosed>>
statVars == <<requestCount, requestsMutex, requestsStart, now>>
histVars == <<recorded, consumed, settled>>
vars == <<config, spoofer, sourceIP, users, orphans, usersMutex, wg, running, stopChanClosed,
          requestCount, requestsMutex, requestsStart, now, loop, drv, ret, panicked,
          recorded, consumed, settled, urlManager, filter>>

\* ---------------------------------------------------------------- helpers
Max(a, b) == IF a >= b THEN a ELSE b

Unlocked == <<"free", 0>>
ByLoop(l) == <<"loop", l>>
ByUser == <<"user", 0>>
ByDriver(c) == <<"driver", c>>

NoLoop == [pc |-> "none", targetCount |-> 0, currentCount |-> 0, i |-> 0,
           disabled |-> FALSE]
\* NewBrowserUser: an open stopChan; Start has not run the goroutine's loop yet.
\* late is history: Stop() was called after the goroutine had returned.
NewUser == [pc |-> "top", closed |-> FALSE, tmp |-> 0, late |-> FALSE]
IdleDriver == [pc |-> "idle", iter |-> {}, active |-> 0, elapsed |-> 0,
               count |-> 0, rps |-> <<0, 1>>]
NoRet == [op |-> "none", err |-> FALSE, active |-> 0, rps |-> <<0, 1>>]

\* A session is <<handle, BrowserUser>>: one that g.users holds, under its handle,
\* or one that g.users dropped (Untracked; the map's keys are never negative).
Untracked == -1
Sessions ==
    {<<h, users[h]>> : h \in DOMAIN users} \cup {<<Untracked, r>> : r \in BagToSet(orphans)}
Goroutines == {s \in Sessions : s[2].pc # "done"}

\* A BrowserUser that g.users drops lives on while its goroutine runs; once the
\* goroutine has returned nothing refers to it.
Dropped(b, r) == IF r.pc = "done" THEN b ELSE b (+) SetToBag({r})

\* Session s goes on as r.
Become(s, r) ==
    IF s[1] # Untracked
    THEN /\ users' = [users EXCEPT ![s[1]] = r]
         /\ UNCHANGED orphans
    ELSE /\ orphans' = Dropped(orphans (-) SetToBag({s[2]}), r)
         /\ UNCHANGED users

FreeLoops == {l \in Loops : loop[l].pc = "none"}
LowestOf(S) == CHOOSE x \in S : \A y \in S : x <= y

Alive == panicked = FALSE

\* ---------------------------------------------------------------- IPSpoofer
\* An address is its IPv4len octets; a uint32 is a number below Word.
OctetBase == 2 ^ OctetBits
Octets == 0..(OctetBase - 1)
Word == OctetBase ^ IPv4len
IPs == {<<a, b, c, d>> : a \in Octets, b \in Octets, c \in Octets, d \in Octets}
NoIP == << >>

\* uint32(ip[0])<<24 | uint32(ip[1])<<16 | uint32(ip[2])<<8 | uint32(ip[3])
ipToUint32(ip) ==
    ((ip[1] * OctetBase + ip[2]) * OctetBase + ip[3]) * OctetBase + ip[4]

\* net.IPv4(byte(ipInt>>24), byte(ipInt>>16), byte(ipInt>>8), byte(ipInt))
uint32ToIP(ipInt) ==
    << (ipInt \div (OctetBase * OctetBase * OctetBase)) % OctetBase,
       (ipInt \div (OctetBase * OctetBase)) % OctetBase,
       (ipInt \div OctetBase) % OctetBase,
       ipInt % OctetBase >>

\* NewIPSpoofer's loop over the octets: the first octet that differs decides.
StartAfterEnd(startIP, endIP) ==
    \E i \in 1..IPv4len :
        /\ startIP[i] > endIP[i]
        /\ \A j \in 1..(i - 1) : startIP[j] = endIP[j]

\* The spoofers NewIPSpoofer returns.
ValidRanges ==
    {sp \in [startIP : IPs, endIP : IPs] : ~StartAfterEnd(sp.startIP, sp.endIP)}

\* The range of the default configuration: every address but the lowest and the
\* highest of its block.
DefaultRange == [startIP |-> uint32ToIP(1), endIP |-> uint32ToIP(Word - 2)]

\* int64(endInt-startInt+1), the subtraction and the addition in uint32.
RangeSize(sp) == (ipToUint32(sp.endIP) - ipToUint32(sp.startIP) + 1) % Word

\* rand.Int63n(n) panics when n <= 0.
Int63nFaults(n) == n <= 0

\* startInt + uint32(r), in uint32.
RandomInt(sp, r) == (ipToUint32(sp.startIP) + r) % Word

\* --------------------------------------------------------------- URLManager
\* The URLs are numbered: m.urls is a sequence of them.  m.rand is a math/rand
\* generator that nothing but its caller synchronises: a draw loads the
\* generator's state and stores the next one.  m.mu is a sync.RWMutex: readers
\* counts the RLocks held (LoadFromFile, the one writer, ran before Start).
Loaded(n, seed) == [urls |-> [k \in 1..n |-> k], readers |-> 0, rand |-> seed]
SampleCorpus == Loaded(CorpusSize, 0)
RandStep(x) == (x + 1) % RandPeriod

\* --------------------------------------------------------------- FilterURLs
\* A candidate is what url.Parse makes of it (a scheme and a host, "" when it
\* has none or does not parse; a host is its characters) and what the network
\* makes of a HEAD request for it (a status code, NoResponse when client.Do
\* returns an error, as it does for every URL that is not http with a host).
NoResponse == 0
NoHost == << >>
Schemes == {"", "http", "ftp"}
Hosts == {NoHost, <<"a">>, <<"b", "a">>}
Statuses == {NoResponse, StatusOK, StatusBadRequest}
Candidates ==
    {u \in [scheme : Schemes, host : Hosts, status : Statuses] :
        u.status # NoResponse => (u.scheme = "http" /\ u.host # NoHost)}
CandidateLists == UNION {[1..n -> Candidates] : n \in 0..MaxURLs}
FilterOptionsValues ==
    [Workers : 0..MaxWorkers, CheckReachability : BOOLEAN, ValidateURL : BOOLEAN,
     ExcludeDomains : {<< >>, << <<"a">> >>}, AllowProtocols : {<< >>, <<"http">>}]

\* strings.Contains(s, substr)
Contains(str, substr) ==
    \E k \in 0..(Len(str) - Len(substr)) : SubSeq(str, k + 1, k + Len(substr)) = substr
\* slices.Contains(options.AllowProtocols, parsedURL.Scheme)
SlicesContains(list, x) == \E k \in 1..Len(list) : list[k] = x
isDomainExcluded(host, excluded) ==
    \E k \in 1..Len(excluded) : Contains(host, excluded[k])

\* "if options.ValidateURL { ... continue }": the syntax, the protocol and the
\* excluded domains.
FailsValidation(u, options) ==
    \/ u.scheme = "" \/ u.host = NoHost
    \/ Len(options.AllowProtocols) > 0 /\ ~SlicesContains(options.AllowProtocols, u.scheme)
    \/ isDomainExcluded(u.host, options.ExcludeDomains)
\* "if valid && options.CheckReachability { ... }"
FailsReachability(u) ==
    \/ u.status = NoResponse
    \/ u.status < StatusOK \/ u.status >= StatusBadRequest
\* What one worker decides for one candidate.
Valid(u, options) ==
    /\ options.ValidateURL => ~FailsValidation(u, options)
    /\ options.CheckReachability => ~FailsReachability(u)

NoFilter == [pc |-> "idle"]
IdleWorker == [pc |-> "none", urlStr |-> 0]
\* FilterURLs(urls, options) at its first statement: validURLs is nil, the mutex
\* is free, the WaitGroup is zero, urlChan is open and unbuffered.
FilterCall(urls, options) ==
    [pc |-> "spawn", urls |-> urls, options |-> options, i |-> 0,
     validURLs |-> << >>, mutex |-> 0, wg |-> 0,
     worker |-> [w \in 1..MaxWorkers |-> IdleWorker],
     sender |-> "none", next |-> 1, chanClosed |-> FALSE, result |-> << >>]

\* -------------------------------------------------------------------- Init
\* NewTrafficGenerator: an empty map, an open stopChan, a zero counter, the window
\* starting now; nothing runs yet.
Constructed ==
    /\ sourceIP = NoIP
    /\ users = << >>
    /\ orphans = EmptyBag
    /\ usersMutex = Unlocked
    /\ wg = 0
    /\ running = FALSE
    /\ stopChanClosed = FALSE
    /\ requestCount = 0
    /\ requestsMutex = Unlocked
    /\ requestsStart = 0
    /\ now = 0
    /\ loop = [l \in Loops |-> NoLoop]
    /\ drv = [c \in Drivers |-> IdleDriver]
    /\ ret = [c \in Drivers |-> NoRet]
    /\ panicked = FALSE
    /\ recorded = 0
    /\ consumed = 0
    /\ settled = 0

\* The configuration is whatever the file and the flags made it.
Init ==
    /\ config \in [Enabled : BOOLEAN, ConcurrentUsers : TargetValues]
    /\ spoofer = DefaultRange
    /\ urlManager = SampleCorpus
    /\ filter = NoFilter
    /\ Constructed

\* ------------------------------------------------------------------ Config
SetConcurrentUsers(num) ==
    /\ Alive
    /\ config.ConcurrentUsers # num
    /\ config' = [config EXCEPT !.ConcurrentUsers = num]
    /\ UNCHANGED <<spoofer, sourceIP, urlManager, filter, sessVars, genVars, statVars, histVars,
                   loop, drv, ret, panicked>>

SetEnabled(enabled) ==
    /\ Alive
    /\ config.Enabled # enabled
    /\ config' = [config EXCEPT !.Enabled = enabled]
    /\ UNCHANGED <<spoofer, sourceIP, urlManager, filter, sessVars, genVars, statVars, histVars,
                   loop, drv, ret, panicked>>

\* ------------------------------------------------------------- manageUsers
\* The target manageUsers hands to adjustActiveUsers: 0 when the configuration is
\* disabled, the configured count otherwise.
TickTargetIgnoringEnabled == config.ConcurrentUsers
TickTarget == IF ~config.Enabled THEN 0 ELSE config.ConcurrentUsers

\* select: case <-g.stopChan.
ManageStop(l) ==
    /\ Alive
    /\ loop[l].pc = "select"
    /\ stopChanClosed
    /\ loop' = [loop EXCEPT ![l] = NoLoop]
    /\ UNCHANGED <<cfgVars, sessVars, genVars, statVars, histVars, drv, ret, panicked>>

\* -------------------------------------------------------- adjustActiveUsers
UsersLockAlwaysAvailable == TRUE
UsersLockAvailable == usersMutex = Unlocked

\* "for i := currentCount; i < targetCount; i++"
FirstNewHandleSkipping(current) == current + 1
FirstNewHandle(current) == current

\* "for i := currentCount - 1; i >= targetCount; i--"
FirstRemovedHandleLowest(current, target) == Max(target, 0)
FirstRemovedHandle(current, target) == current - 1
RemoveContinuesStrict(i, target) == i > target
RemoveContinues(i, target) == i >= target

\* select: case <-ticker.C, up to adjustActiveUsers' g.usersMutex.Lock() and
\* currentCount := len(g.users).  The ticker may have fired whenever the loop is
\* at its select; with g.stopChan closed as well, Go's select takes either case.
\* What the loop read from the configuration is seen by nobody before it holds the
\* lock, so the reads and the Lock are one step.
ManageTick(l) ==
    /\ Alive
    /\ loop[l].pc = "select"
    /\ UsersLockAvailable
    /\ usersMutex' = ByLoop(l)
    /\ LET current == Cardinality(DOMAIN users)
           target == TickTarget
       IN loop' = [loop EXCEPT
              ![l].targetCount = target,
              ![l].disabled = ~config.Enabled,
              ![l].currentCount = current,
              ![l].pc = IF current < target /\ FirstNewHandle(current) < target
                        THEN "add"
                        ELSE IF /\ current > target
                                /\ RemoveContinues(FirstRemovedHandle(current, target), target)
                             THEN "remove" ELSE "unlock",
              ![l].i = IF current < target THEN FirstNewHandle(current)
                       ELSE IF current > target THEN FirstRemovedHandle(current, target)
                       ELSE 0]
    /\ UNCHANGED <<cfgVars, sessVars, wg, running, stopChanClosed, statVars, histVars,
                   drv, ret, panicked>>

\* One iteration of the adding loop: NewBrowserUser(i, ...), whose GetRandomIP()
\* panics on a range of size 0; g.users[i] = user; user.Start() up to its "go":
\* u.wg.Add(1) and the goroutine exists.  cap bounds the BrowserUsers that exist
\* at the same time.
AdjustAdd(l, cap) ==
    /\ Alive
    /\ loop[l].pc = "add"
    /\ Cardinality(DOMAIN users) + BagCardinality(orphans) < cap
    /\ LET i == loop[l].i
       IN IF Int63nFaults(RangeSize(spoofer))
          THEN /\ panicked' = TRUE
               /\ UNCHANGED <<users, orphans, wg, loop>>
          ELSE /\ users' = [h \in DOMAIN users \cup {i} |->
                                IF h = i THEN NewUser ELSE users[h]]
               /\ orphans' = IF i \in DOMAIN users
                             THEN Dropped(orphans, users[i]) ELSE orphans
               /\ wg' = wg + 1
               /\ loop' = [loop EXCEPT ![l].i = i + 1,
                                       ![l].pc = IF i + 1 < loop[l].targetCount
                                                 THEN "add" ELSE "unlock"]
               /\ UNCHANGED panicked
    /\ UNCHANGED <<cfgVars, usersMutex, running, stopChanClosed, statVars, histVars,
                   drv, ret>>

\* BrowserUser.Stop: close(u.stopChan) panics on a channel that is closed already,
\* and on no other; the goroutine, running or not, plays no part in it.
StopFaultsOnExited(u) == u.closed \/ u.pc = "done"
StopFaults(u) == u.closed
Stopped(u) == [u EXCEPT !.closed = TRUE, !.late = (u.pc = "done")]

\* One iteration of the removing loop up to user.Stop(); an absent handle is
\* skipped.
AdjustRemove(l) ==
    /\ Alive
    /\ loop[l].pc = "remove"
    /\ LET i == loop[l].i
       IN IF i \in DOMAIN users
          THEN IF StopFaults(users[i])
               THEN /\ panicked' = TRUE
                    /\ UNCHANGED <<users, loop>>
               ELSE /\ users' = [users EXCEPT ![i] = Stopped(users[i])]
                    /\ loop' = [loop EXCEPT ![l].pc = "delete"]
                    /\ UNCHANGED panicked
          ELSE /\ loop' = [loop EXCEPT ![l].i = i - 1,
                                       ![l].pc = IF RemoveContinues(i - 1, loop[l].targetCount)
                                                 THEN "remove" ELSE "unlock"]
               /\ UNCHANGED <<users, panicked>>
    /\ UNCHANGED <<cfgVars, orphans, genVars, statVars, histVars, drv, ret>>

\* delete(g.users, i) and the loop's i--.
AdjustDelete(l) ==
    /\ Alive
    /\ loop[l].pc = "delete"
    /\ LET i == loop[l].i
       IN /\ users' = [h \in DOMAIN users \ {i} |-> users[h]]
          /\ orphans' = Dropped(orphans, users[i])
          /\ loop' = [loop EXCEPT ![l].i = i - 1,
                                  ![l].pc = IF RemoveContinues(i - 1, loop[l].targetCount)
                                            THEN "remove" ELSE "unlock"]
    /\ UNCHANGED <<cfgVars, genVars, statVars, histVars, drv, ret, panicked>>

\* The deferred g.usersMutex.Unlock(); adjustActiveUsers returns to the select.
AdjustUnlock(l) ==
    /\ Alive
    /\ loop[l].pc = "unlock"
    /\ usersMutex' = Unlocked
    /\ loop' = [loop EXCEPT ![l] = [NoLoop EXCEPT !.pc = "select"]]
    /\ settled' = Max(loop[l].targetCount, 0)
    /\ UNCHANGED <<cfgVars, sessVars, wg, running, stopChanClosed, statVars, recorded,
                   consumed, drv, ret, panicked>>

\* ------------------------------------------------------------- BrowserUser
\* The goroutine returns: the deferred u.wg.Done().
UserExitWithoutDone(s) ==
    /\ wg' = wg
    /\ Become(s, [s[2] EXCEPT !.pc = "done"])
UserExit(s) ==
    /\ wg' = wg - 1
    /\ Become(s, [s[2] EXCEPT !.pc = "done"])

\* The loop's first select: "case <-u.stopChan" is taken when the channel is
\* closed, "default" only when it is not.
TopSelectSeesStopNever(s) == FALSE
TopSelectSeesStop(s) == s[2].closed

UserTopStop(s) ==
    /\ Alive
    /\ s[2].pc = "top"
    /\ TopSelectSeesStop(s)
    /\ UserExit(s)
    /\ UNCHANGED <<cfgVars, usersMutex, running, stopChanClosed, statVars, histVars,
                   loop, drv, ret, panicked>>

UserTopDefault(s) ==
    /\ Alive
    /\ s[2].pc = "top"
    /\ ~TopSelectSeesStop(s)
    /\ Become(s, [s[2] EXCEPT !.pc = "checked"])
    /\ UNCHANGED <<cfgVars, genVars, statVars, histVars, loop, drv, ret, panicked>>

\* default: time.Since(startTime) > sessionDuration: the session's lifetime is over.
UserExpire(s) ==
    /\ Alive
    /\ s[2].pc = "checked"
    /\ UserExit(s)
    /\ UNCHANGED <<cfgVars, usersMutex, running, stopChanClosed, statVars, histVars,
                   loop, drv, ret, panicked>>

\* default: GetRandomURL() and u.client.Get(url) up to c.client.Do(req): the
\* request is on its way.
UserGet(s) ==
    /\ Alive
    /\ s[2].pc = "checked"
    /\ Become(s, [s[2] EXCEPT !.pc = "request"])
    /\ UNCHANGED <<cfgVars, genVars, statVars, histVars, loop, drv, ret, panicked>>

\* Get returns an error (http.NewRequest or c.client.Do failed): it is printed and
\* the loop goes on to its pause.
UserGetErrorFatal(s) ==
    /\ Alive
    /\ s[2].pc = "request"
    /\ UserExit(s)
    /\ UNCHANGED <<cfgVars, usersMutex, running, stopChanClosed, statVars, histVars,
                   loop, drv, ret, panicked>>
UserGetErrorCounted(s) ==
    /\ Alive
    /\ s[2].pc = "request"
    /\ requestCount < MaxCount
    /\ requestCount' = requestCount + 1
    /\ Become(s, [s[2] EXCEPT !.pc = "pause"])
    /\ UNCHANGED <<cfgVars, genVars, requestsMutex, requestsStart, now, histVars, loop,
                   drv, ret, panicked>>
UserGetError(s) ==
    /\ Alive
    /\ s[2].pc = "request"
    /\ Become(s, [s[2] EXCEPT !.pc = "pause"])
    /\ UNCHANGED <<cfgVars, genVars, statVars, histVars, loop, drv, ret, panicked>>

\* -------------------------------------------------- RecordRequest (callback)
RequestsLockAlwaysAvailable == TRUE
RequestsLockAvailable == requestsMutex = Unlocked

\* Get received a response and calls the callback, RecordRequest:
\* g.requestsMutex.Lock() and the load of g.requestCount++.
RecordRequestLock(s) ==
    /\ Alive
    /\ s[2].pc = "request"
    /\ requestCount < MaxCount
    /\ RequestsLockAvailable
    /\ requestsMutex' = ByUser
    /\ Become(s, [s[2] EXCEPT !.pc = "recording", !.tmp = requestCount])
    /\ UNCHANGED <<cfgVars, genVars, requestCount, requestsStart, now, histVars,
                   loop, drv, ret, panicked>>

\* The store of g.requestCount++ and the deferred g.requestsMutex.Unlock(); Get
\* returns nil and the loop goes on to its pause.
RecordRequestStore(s) ==
    /\ Alive
    /\ s[2].pc = "recording"
    /\ requestCount' = s[2].tmp + 1
    /\ requestsMutex' = Unlocked
    /\ recorded' = recorded + 1
    /\ Become(s, [s[2] EXCEPT !.pc = "pause", !.tmp = 0])
    /\ UNCHANGED <<cfgVars, genVars, requestsStart, now, consumed, settled, loop, drv,
                   ret, panicked>>

\* The second select: "case <-u.stopChan" while the session waits its think time.
\* The select waits on the channel itself, so the case is ready as soon as the
\* channel is closed.
PauseSelectSeesStopNever(s) == FALSE
PauseSelectSeesStop(s) == s[2].closed

UserPauseStop(s) ==
    /\ Alive
    /\ s[2].pc = "pause"
    /\ PauseSelectSeesStop(s)
    /\ UserExit(s)
    /\ UNCHANGED <<cfgVars, usersMutex, running, stopChanClosed, statVars, histVars,
                   loop, drv, ret, panicked>>

\* The second select: "case <-time.After(thinkDuration)"; with u.stopChan closed
\* as well, select takes either case.
UserPauseElapsed(s) ==
    /\ Alive
    /\ s[2].pc = "pause"
    /\ Become(s, [s[2] EXCEPT !.pc = "top"])
    /\ UNCHANGED <<cfgVars, genVars, statVars, histVars, loop, drv, ret, panicked>>

\* ------------------------------------------------------------------- Start
\* "if g.running { return fmt.Errorf(...already running) }"
StartRefusesNever == FALSE
StartRefuses == running

StartCheck(c) ==
    /\ Alive
    /\ drv[c].pc = "idle"
    /\ IF StartRefuses
       THEN /\ ret' = [ret EXCEPT ![c] = [NoRet EXCEPT !.op = "Start", !.err = TRUE]]
            /\ UNCHANGED drv
       ELSE /\ drv' = [drv EXCEPT ![c].pc = "start"]
            /\ ret' = [ret EXCEPT ![c] = NoRet]
    /\ UNCHANGED <<cfgVars, sessVars, genVars, statVars, histVars, loop, panicked>>

\* g.running = true; go g.manageUsers(); return nil.
StartLaunch(c) ==
    /\ Alive
    /\ drv[c].pc = "start"
    /\ FreeLoops # {}
    /\ running' = TRUE
    /\ loop' = [loop EXCEPT ![LowestOf(FreeLoops)] = [NoLoop EXCEPT !.pc = "select"]]
    /\ drv' = [drv EXCEPT ![c].pc = "idle"]
    /\ ret' = [ret EXCEPT ![c] = [NoRet EXCEPT !.op = "Start"]]
    /\ UNCHANGED <<cfgVars, sessVars, usersMutex, wg, stopChanClosed, statVars,
                   histVars, panicked>>

\* -------------------------------------------------------------------- Stop
\* "if !g.running { return }"
StopSkipsNever == FALSE
StopSkips == ~running

StopCheck(c) ==
    /\ Alive
    /\ drv[c].pc = "idle"
    /\ IF StopSkips
       THEN /\ ret' = [ret EXCEPT ![c] = [NoRet EXCEPT !.op = "Stop", !.err = TRUE]]
            /\ UNCHANGED drv
       ELSE /\ drv' = [drv EXCEPT ![c].pc = "stopClose"]
            /\ ret' = [ret EXCEPT ![c] = NoRet]
    /\ UNCHANGED <<cfgVars, sessVars, genVars, statVars, histVars, loop, panicked>>

\* close(g.stopChan): a panic when the channel is closed already.
StopClose(c) ==
    /\ Alive
    /\ drv[c].pc = "stopClose"
    /\ IF stopChanClosed
       THEN /\ panicked' = TRUE
            /\ UNCHANGED <<stopChanClosed, drv>>
       ELSE /\ stopChanClosed' = TRUE
            /\ drv' = [drv EXCEPT ![c].pc = "stopLock"]
            /\ UNCHANGED panicked
    /\ UNCHANGED <<cfgVars, sessVars, usersMutex, wg, running, statVars, histVars,
                   loop, ret>>

\* g.usersMutex.Lock() and the start of "for _, user := range g.users".
StopLock(c) ==
    /\ Alive
    /\ drv[c].pc = "stopLock"
    /\ UsersLockAvailable
    /\ usersMutex' = ByDriver(c)
    /\ drv' = [drv EXCEPT ![c].pc = "stopUsers", ![c].iter = DOMAIN users]
    /\ UNCHANGED <<cfgVars, sessVars, wg, running, stopChanClosed, statVars, histVars,
                   loop, ret, panicked>>

\* One iteration of the range loop, in the map's arbitrary order: user.Stop().
StopUser(c) ==
    /\ Alive
    /\ drv[c].pc = "stopUsers"
    /\ \E h \in drv[c].iter :
          IF StopFaults(users[h])
          THEN /\ panicked' = TRUE
               /\ UNCHANGED <<users, drv>>
          ELSE /\ users' = [users EXCEPT ![h] = Stopped(users[h])]
               /\ drv' = [drv EXCEPT ![c].iter = drv[c].iter \ {h}]
               /\ UNCHANGED panicked
    /\ UNCHANGED <<cfgVars, orphans, genVars, statVars, histVars, loop, ret>>

\* g.usersMutex.Unlock() after the range loop.
StopUnlock(c) ==
    /\ Alive
    /\ drv[c].pc = "stopUsers"
    /\ drv[c].iter = {}
    /\ usersMutex' = Unlocked
    /\ drv' = [drv EXCEPT ![c].pc = "stopWait"]
    /\ UNCHANGED <<cfgVars, sessVars, wg, running, stopChanClosed, statVars, histVars,
                   loop, ret, panicked>>

\* g.wg.Wait() returns when the counter is zero.
StopWait(c) ==
    /\ Alive
    /\ drv[c].pc = "stopWait"
    /\ wg = 0
    /\ drv' = [drv EXCEPT ![c].pc = "stopDone"]
    /\ UNCHANGED <<cfgVars, sessVars, genVars, statVars, histVars, loop, ret, panicked>>

\* g.running = false and Stop returns.
StopReturn(c) ==
    /\ Alive
    /\ drv[c].pc = "stopDone"
    /\ running' = FALSE
    /\ drv' = [drv EXCEPT ![c].pc = "idle"]
    /\ ret' = [ret EXCEPT ![c] = [NoRet EXCEPT !.op = "Stop"]]
    /\ UNCHANGED <<cfgVars, sessVars, usersMutex, wg, stopChanClosed, statVars,
                   histVars, loop, panicked>>

\* ---------------------------------------------------------------- GetStats
\* GetStats releases g.usersMutex before it builds the map it returns, and so
\* before it calls GetActualRequestsPerSecond.
StatsKeepsUsersLock(c) == ByDriver(c)
StatsLeavesUsersLock(c) == Unlocked

\* g.usersMutex.Lock(); activeUsers := len(g.users); g.usersMutex.Unlock(): one
\* step, since nothing else happens inside the critical section.
GetStatsUsers(c) ==
    /\ Alive
    /\ drv[c].pc = "idle"
    /\ UsersLockAvailable
    /\ usersMutex' = StatsLeavesUsersLock(c)
    /\ drv' = [drv EXCEPT ![c].pc = "garps", ![c].active = Cardinality(DOMAIN users)]
    /\ ret' = [ret EXCEPT ![c] = NoRet]
    /\ UNCHANGED <<cfgVars, sessVars, wg, running, stopChanClosed, statVars, histVars,
                   loop, panicked>>

\* ---------------------------------------------- GetActualRequestsPerSecond
\* "if elapsed < 1" and "if elapsed > 60", elapsed in clock ticks.
TooEarlyInclusive(elapsed) == elapsed <= MinElapsedSeconds * UnitsPerSecond
TooEarly(elapsed) == elapsed < MinElapsedSeconds * UnitsPerSecond
ResetDueInclusive(elapsed) == elapsed >= ResetAfterSeconds * UnitsPerSecond
ResetDue(elapsed) == elapsed > ResetAfterSeconds * UnitsPerSecond

\* float64(g.requestCount) / elapsed, as the fraction <<numerator, denominator>>
\* of requests per second.
Rate(count, elapsed) == <<count * UnitsPerSecond, elapsed>>
ZeroRate == <<0, 1>>
\* GetStats: float64(int(rps*100)) / 100, in hundredths.
Rounded(rps) == (rps[1] * 100) \div rps[2]

\* g.requestsMutex.Lock(); elapsed := time.Since(g.requestsStart).Seconds();
\* "return 0" (with the deferred Unlock) when it is too early, else the division.
GarpsLock(c) ==
    /\ Alive
    /\ drv[c].pc = "garps"
    /\ RequestsLockAvailable
    /\ LET elapsed == now - requestsStart
       IN IF TooEarly(elapsed)
          THEN /\ drv' = [drv EXCEPT ![c] = IdleDriver]
               /\ ret' = [ret EXCEPT ![c] = [NoRet EXCEPT !.op = "GetStats",
                                                         !.active = drv[c].active,
                                                         !.rps = ZeroRate]]
               /\ UNCHANGED requestsMutex
          ELSE /\ requestsMutex' = ByDriver(c)
               /\ drv' = [drv EXCEPT ![c].pc = "garpsReset",
                                     ![c].elapsed = elapsed,
                                     ![c].count = requestCount,
                                     ![c].rps = Rate(requestCount, elapsed)]
               /\ UNCHANGED ret
    /\ UNCHANGED <<cfgVars, sessVars, genVars, requestCount, requestsStart, now,
                   histVars, loop, panicked>>

\* The reset when more than a minute has elapsed, the deferred Unlock and the
\* return of rps to GetStats, which returns its map.
GarpsReturn(c) ==
    /\ Alive
    /\ drv[c].pc = "garpsReset"
    /\ IF ResetDue(drv[c].elapsed)
       THEN /\ requestCount' = 0
            /\ requestsStart' = now
            /\ consumed' = consumed + drv[c].count
       ELSE UNCHANGED <<requestCount, requestsStart, consumed>>
    /\ requestsMutex' = Unlocked
    /\ drv' = [drv EXCEPT ![c] = IdleDriver]
    /\ ret' = [ret EXCEPT ![c] = [NoRet EXCEPT !.op = "GetStats",
                                              !.active = drv[c].active,
                                              !.rps = drv[c].rps]]
    /\ UNCHANGED <<cfgVars, sessVars, genVars, now, recorded, settled, loop, panicked>>

\* ------------------------------------------------------------------- clock
\* Time passes: the clock is read next at instant t.
AdvanceClock(t) ==
    /\ Alive
    /\ t > now
    /\ now' = t
    /\ UNCHANGED <<cfgVars, sessVars, genVars, requestCount, requestsMutex,
                   requestsStart, histVars, loop, drv, ret, panicked>>

\* ---------------------------------------------------------- specifications
\* The population: configuration changes, Start and Stop, the manageUsers loops
\* and the sessions.
Next ==
    \/ \E num \in TargetValues : SetConcurrentUsers(num)
    \/ \E enabled \in BOOLEAN : SetEnabled(enabled)
    \/ \E c \in Drivers : StartCheck(c)
    \/ \E c \in Drivers : StartLaunch(c)
    \/ \E c \in Drivers : StopCheck(c)
    \/ \E c \in Drivers : StopClose(c)
    \/ \E c \in Drivers : StopLock(c)
    \/ \E c \in Drivers : StopUser(c)
    \/ \E c \in Drivers : StopUnlock(c)
    \/ \E c \in Drivers : StopWait(c)
    \/ \E c \in Drivers : StopReturn(c)
    \/ \E l \in Loops : ManageStop(l)
    \/ \E l \in Loops : ManageTick(l)
    \/ \E l \in Loops : AdjustAdd(l, MaxObjs)
    \/ \E l \in Loops : AdjustRemove(l)
    \/ \E l \in Loops : AdjustDelete(l)
    \/ \E l \in Loops : AdjustUnlock(l)
    \/ \E s \in Sessions : UserTopStop(s)
    \/ \E s \in Sessions : UserTopDefault(s)
    \/ \E s \in Sessions : UserExpire(s)
    \/ \E s \in Sessions : UserGet(s)
    \/ \E s \in Sessions : UserGetError(s)
    \/ \E s \in Sessions : RecordRequestLock(s)
    \/ \E s \in Sessions : RecordRequestStore(s)
    \/ \E s \in Sessions : UserPauseStop(s)
    \/ \E s \in Sessions : UserPauseElapsed(s)

Spec == Init /\ [][Next]_vars

\* A started generator whose manageUsers loop is at its select.
Started ==
    /\ spoofer = DefaultRange
    /\ urlManager = SampleCorpus
    /\ filter = NoFilter
    /\ sourceIP = NoIP
    /\ usersMutex = Unlocked
    /\ running = TRUE
    /\ stopChanClosed = FALSE
    /\ requestCount = 0
    /\ requestsMutex = Unlocked
    /\ requestsStart = 0
    /\ now = 0
    /\ loop = [l \in Loops |-> IF l = 1 THEN [NoLoop EXCEPT !.pc = "select"] ELSE NoLoop]
    /\ drv = [c \in Drivers |-> IdleDriver]
    /\ ret = [c \in Drivers |-> [NoRet EXCEPT !.op = "Start"]]
    /\ panicked = FALSE
    /\ recorded = 0
    /\ consumed = 0

\* The statistics: NumStatSessions sessions that the first tick of a started
\* generator has created, the clock, and a caller polling GetStats.
InitStats ==
    /\ config = [Enabled |-> TRUE, ConcurrentUsers |-> NumStatSessions]
    /\ users = [h \in 0..(NumStatSessions - 1) |-> NewUser]
    /\ orphans = EmptyBag
    /\ wg = NumStatSessions
    /\ settled = NumStatSessions
    /\ Started

NextStats ==
    \/ \E t \in ClockValues : AdvanceClock(t)
    \/ \E c \in Drivers : GetStatsUsers(c)
    \/ \E c \in Drivers : GarpsLock(c)
    \/ \E c \in Drivers : GarpsReturn(c)
    \/ \E s \in Sessions : UserTopDefault(s)
    \/ \E s \in Sessions : UserExpire(s)
    \/ \E s \in Sessions : UserGet(s)
    \/ \E s \in Sessions : UserGetError(s)
    \/ \E s \in Sessions : RecordRequestLock(s)
    \/ \E s \in Sessions : RecordRequestStore(s)
    \/ \E s \in Sessions : UserPauseElapsed(s)

SpecStats == InitStats /\ [][NextStats]_vars

\* The reconciliation alone, with targets up to ReconTarget: a started generator,
\* configuration changes, the manageUsers loop, and sessions that do nothing but
\* leave when they are cancelled.
InitReconcile ==
    /\ config \in [Enabled : BOOLEAN, ConcurrentUsers : ReconValues]
    /\ users = << >>
    /\ orphans = EmptyBag
    /\ wg = 0
    /\ settled = 0
    /\ Started

NextReconcile ==
    \/ \E num \in ReconValues : SetConcurrentUsers(num)
    \/ \E enabled \in BOOLEAN : SetEnabled(enabled)
    \/ \E l \in Loops : ManageTick(l)
    \/ \E l \in Loops : AdjustAdd(l, ReconObjs)
    \/ \E l \in Loops : AdjustRemove(l)
    \/ \E l \in Loops : AdjustDelete(l)
    \/ \E l \in Loops : AdjustUnlock(l)
    \/ \E s \in Sessions : UserTopStop(s)

SpecReconcile == InitReconcile /\ [][NextReconcile]_vars

\* One run of a started generator up to and after its Stop(): configuration
\* changes, the manageUsers loop, the sessions, and a caller that calls Stop().
InitStop ==
    /\ config \in [Enabled : BOOLEAN, ConcurrentUsers : TargetValues]
    /\ users = << >>
    /\ orphans = EmptyBag
    /\ wg = 0
    /\ settled = 0
    /\ Started

NextStop ==
    \/ \E num \in TargetValues : SetConcurrentUsers(num)
    \/ \E enabled \in BOOLEAN : SetEnabled(enabled)
    \/ \E c \in Drivers : StopCheck(c)
    \/ \E c \in Drivers : StopClose(c)
    \/ \E c \in Drivers : StopLock(c)
    \/ \E c \in Drivers : StopUser(c)
    \/ \E c \in Drivers : StopUnlock(c)
    \/ \E c \in Drivers : StopWait(c)
    \/ \E c \in Drivers : StopReturn(c)
    \/ \E l \in Loops : ManageStop(l)
    \/ \E l \in Loops : ManageTick(l)
    \/ \E l \in Loops : AdjustAdd(l, MaxObjs)
    \/ \E l \in Loops : AdjustRemove(l)
    \/ \E l \in Loops : AdjustDelete(l)
    \/ \E l \in Loops : AdjustUnlock(l)
    \/ \E s \in Sessions : UserTopStop(s)
    \/ \E s \in Sessions : UserTopDefault(s)
    \/ \E s \in Sessions : UserExpire(s)
    \/ \E s \in Sessions : UserGet(s)
    \/ \E s \in Sessions : UserGetError(s)
    \/ \E s \in Sessions : RecordRequestLock(s)
    \/ \E s \in Sessions : RecordRequestStore(s)
    \/ \E s \in Sessions : UserPauseStop(s)
    \/ \E s \in Sessions : UserPauseElapsed(s)

SpecStop == InitStop /\ [][NextStop]_vars

\* The snapshots: the reconciliation of a started generator and a caller polling
\* GetStats.
NextSnapshot ==
    \/ \E num \in ReconValues : SetConcurrentUsers(num)
    \/ \E enabled \in BOOLEAN : SetEnabled(enabled)
    \/ \E l \in Loops : ManageTick(l)
    \/ \E l \in Loops : AdjustAdd(l, ReconObjs)
    \/ \E l \in Loops : AdjustRemove(l)
    \/ \E l \in Loops : AdjustDelete(l)
    \/ \E l \in Loops : AdjustUnlock(l)
    \/ \E s \in Sessions : UserTopStop(s)
    \/ \E c \in Drivers : GetStatsUsers(c)
    \/ \E c \in Drivers : GarpsLock(c)

SpecSnapshot == InitReconcile /\ [][NextSnapshot]_vars

\* The generator's life cycle: configuration changes, Start and Stop, the
\* manageUsers loops, and sessions that do nothing but leave when they are
\* cancelled.
NextLifecycle ==
    \/ \E num \in TargetValues : SetConcurrentUsers(num)
    \/ \E enabled \in BOOLEAN : SetEnabled(enabled)
    \/ \E c \in Drivers : StartCheck(c)
    \/ \E c \in Drivers : StartLaunch(c)
    \/ \E c \in Drivers : StopCheck(c)
    \/ \E c \in Drivers : StopClose(c)
    \/ \E c \in Drivers : StopLock(c)
    \/ \E c \in Drivers : StopUser(c)
    \/ \E c \in Drivers : StopUnlock(c)
    \/ \E c \in Drivers : StopWait(c)
    \/ \E c \in Drivers : StopReturn(c)
    \/ \E l \in Loops : ManageStop(l)
    \/ \E l \in Loops : ManageTick(l)
    \/ \E l \in Loops : AdjustAdd(l, MaxObjs)
    \/ \E l \in Loops : AdjustRemove(l)
    \/ \E l \in Loops : AdjustDelete(l)
    \/ \E l \in Loops : AdjustUnlock(l)
    \/ \E s \in Sessions : UserTopStop(s)

SpecLifecycle == Init /\ [][NextLifecycle]_vars

\* The spoofer alone: any range NewIPSpoofer accepts, and GetRandomIP calls.
GetRandomIP ==
    /\ Alive
    /\ IF Int63nFaults(RangeSize(spoofer))
       THEN /\ panicked' = TRUE
            /\ UNCHANGED sourceIP
       ELSE /\ \E r \in 0..(RangeSize(spoofer) - 1) :
                  sourceIP' = uint32ToIP(RandomInt(spoofer, r))
            /\ UNCHANGED panicked
    /\ UNCHANGED <<config, spoofer, urlManager, filter, sessVars, genVars, statVars, histVars,
                   loop, drv, ret>>

InitAddr ==
    /\ config = [Enabled |-> TRUE, ConcurrentUsers |-> 0]
    /\ spoofer \in ValidRanges
    /\ urlManager = SampleCorpus
    /\ filter = NoFilter
    /\ Constructed

NextAddr == GetRandomIP

SpecAddr == InitAddr /\ [][NextAddr]_vars

\* FilterURLs alone: any list of candidates, any options.  Nothing of the
\* generator takes part in it.
FilterFrame ==
    UNCHANGED <<config, spoofer, sourceIP, urlManager, sessVars, genVars, statVars, histVars,
                loop, drv, ret, panicked>>

\* "for i := 0; i < options.Workers; i++ { wg.Add(1); go func() {...}() }": one
\* iteration.  The worker stands at its "for urlStr := range urlChan".
FilterSpawn ==
    /\ filter.pc = "spawn"
    /\ filter.i < filter.options.Workers
    /\ filter' = [filter EXCEPT !.i = @ + 1, !.wg = @ + 1,
                                !.worker[filter.i + 1].pc = "range"]
    /\ FilterFrame

\* The loop is over: "go func() { for _, u := range urls {...}; close(urlChan) }()"
\* and FilterURLs stands at wg.Wait().
FilterSend ==
    /\ filter.pc = "spawn"
    /\ ~(filter.i < filter.options.Workers)
    /\ filter' = [filter EXCEPT !.pc = "wait", !.sender = "send"]
    /\ FilterFrame

\* "urlChan <- u" meets worker w's receive: the channel has no buffer.
FilterReceive(w) ==
    /\ filter.pc # "idle"
    /\ filter.sender = "send"
    /\ filter.next <= Len(filter.urls)
    /\ filter.worker[w].pc = "range"
    /\ filter' = [filter EXCEPT !.next = @ + 1,
                                !.worker[w] = [pc |-> "check", urlStr |-> filter.next]]
    /\ FilterFrame

\* close(urlChan) after the last send.
FilterClose ==
    /\ filter.pc # "idle"
    /\ filter.sender = "send"
    /\ filter.next > Len(filter.urls)
    /\ filter' = [filter EXCEPT !.sender = "done", !.chanClosed = TRUE]
    /\ FilterFrame

\* The worker's checks of its candidate: "continue" (or the printed "Filtered
\* out") when one fails, else on to mutex.Lock().
FilterCheck(w) ==
    /\ filter.pc # "idle"
    /\ filter.worker[w].pc = "check"
    /\ filter' = IF Valid(filter.urls[filter.worker[w].urlStr], filter.options)
                 THEN [filter EXCEPT !.worker[w].pc = "lock"]
                 ELSE [filter EXCEPT !.worker[w] = [pc |-> "range", urlStr |-> 0]]
    /\ FilterFrame

\* mutex.Lock()
FilterLock(w) ==
    /\ filter.pc # "idle"
    /\ filter.worker[w].pc = "lock"
    /\ filter.mutex = 0
    /\ filter' = [filter EXCEPT !.mutex = w, !.worker[w].pc = "append"]
    /\ FilterFrame

\* validURLs = append(validURLs, urlStr); mutex.Unlock()
FilterAppend(w) ==
    /\ filter.pc # "idle"
    /\ filter.worker[w].pc = "append"
    /\ filter' = [filter EXCEPT
                     !.validURLs = Append(@, filter.urls[filter.worker[w].urlStr]),
                     !.mutex = 0,
                     !.worker[w] = [pc |-> "range", urlStr |-> 0]]
    /\ FilterFrame

\* The range over the closed, empty channel ends: the deferred wg.Done().
FilterWorkerDone(w) ==
    /\ filter.pc # "idle"
    /\ filter.worker[w].pc = "range"
    /\ filter.chanClosed
    /\ filter' = [filter EXCEPT !.wg = @ - 1, !.worker[w].pc = "done"]
    /\ FilterFrame

\* wg.Wait() returns when the counter is zero; "return validURLs, nil".
FilterReturn ==
    /\ filter.pc = "wait"
    /\ filter.wg = 0
    /\ filter' = [filter EXCEPT !.pc = "returned", !.result = filter.validURLs]
    /\ FilterFrame

InitFilter ==
    /\ config = [Enabled |-> TRUE, ConcurrentUsers |-> 0]
    /\ spoofer = DefaultRange
    /\ urlManager = SampleCorpus
    /\ filter \in {FilterCall(urls, options) :
                      urls \in CandidateLists, options \in FilterOptionsValues}
    /\ Constructed

NextFilter ==
    \/ FilterSpawn
    \/ FilterSend
    \/ \E w \in 1..MaxWorkers : FilterReceive(w)
    \/ FilterClose
    \/ \E w \in 1..MaxWorkers : FilterCheck(w)
    \/ \E w \in 1..MaxWorkers : FilterLock(w)
    \/ \E w \in 1..MaxWorkers : FilterAppend(w)
    \/ \E w \in 1..MaxWorkers : FilterWorkerDone(w)
    \/ FilterReturn

SpecFilter == InitFilter /\ [][NextFilter]_vars

\* The population under a constant, enabled, positive target: a started
\* generator, its manageUsers loop and its sessions.  The ticker fires every
\* second and the scheduler runs every goroutine that can run: the loop's steps
\* and the sessions' steps are weakly fair.  When a session's lifetime is over is
\* up to the session.
InitPopulation ==
    /\ config \in {[Enabled |-> TRUE, ConcurrentUsers |-> T] : T \in 1..MaxTarget}
    /\ users = << >>
    /\ orphans = EmptyBag
    /\ wg = 0
    /\ settled = 0
    /\ Started

LoopStep(l) ==
    \/ ManageTick(l)
    \/ AdjustAdd(l, MaxObjs)
    \/ AdjustUnlock(l)

SessionStep ==
    \/ \E s \in Sessions : UserTopDefault(s)
    \/ \E s \in Sessions : UserGet(s)
    \/ \E s \in Sessions : UserGetError(s)
    \/ \E s \in Sessions : RecordRequestLock(s)
    \/ \E s \in Sessions : RecordRequestStore(s)
    \/ \E s \in Sessions : UserPauseElapsed(s)

NextPopulation ==
    \/ \E l \in Loops : LoopStep(l)
    \/ SessionStep
    \/ \E s \in Sessions : UserExpire(s)

SpecPopulation ==
    /\ InitPopulation
    /\ [][NextPopulation]_vars
    /\ \A l \in Loops : WF_vars(LoopStep(l))
    /\ WF_vars(SessionStep)

\* The life cycle with several callers: MaxCallers goroutines call Start() and
\* Stop() on one generator with nothing to order their calls.  g.running is a
\* plain field: each caller's read and write of it is a step of its own.
InitCallers ==
    /\ config \in [Enabled : BOOLEAN, ConcurrentUsers : 0..1]
    /\ spoofer = DefaultRange
    /\ sourceIP = NoIP
    /\ urlManager = SampleCorpus
    /\ filter = NoFilter
    /\ users = << >>
    /\ orphans = EmptyBag
    /\ usersMutex = Unlocked
    /\ wg = 0
    /\ running = FALSE
    /\ stopChanClosed = FALSE
    /\ requestCount = 0
    /\ requestsMutex = Unlocked
    /\ requestsStart = 0
    /\ now = 0
    /\ loop = [l \in Loops |-> NoLoop]
    /\ drv = [c \in Callers |-> IdleDriver]
    /\ ret = [c \in Callers |-> NoRet]
    /\ panicked = FALSE
    /\ recorded = 0
    /\ consumed = 0
    /\ settled = 0

NextCallers ==
    \/ \E c \in Callers : StartCheck(c)
    \/ \E c \in Callers : StartLaunch(c)
    \/ \E c \in Callers : StopCheck(c)
    \/ \E c \in Callers : StopClose(c)
    \/ \E c \in Callers : StopLock(c)
    \/ \E c \in Callers : StopUser(c)
    \/ \E c \in Callers : StopUnlock(c)
    \/ \E c \in Callers : StopWait(c)
    \/ \E c \in Callers : StopReturn(c)
    \/ \E l \in Loops : ManageStop(l)
    \/ \E l \in Loops : ManageTick(l)
    \/ \E l \in Loops : AdjustAdd(l, MaxObjs)
    \/ \E l \in Loops : AdjustUnlock(l)
    \/ \E s \in Sessions : UserTopStop(s)

SpecCallers == InitCallers /\ [][NextCallers]_vars

\* The two locks: a started generator, configuration changes, the manageUsers
\* loop, sessions whose requests are answered, and a caller that polls GetStats
\* and calls Stop(), once the first second of the measurement window is over.
LockClock == {MinElapsedSeconds * UnitsPerSecond}

InitLocks ==
    /\ config \in [Enabled : {TRUE}, ConcurrentUsers : 0..MaxTarget]
    /\ users = << >>
    /\ orphans = EmptyBag
    /\ wg = 0
    /\ settled = 0
    /\ Started

NextLocks ==
    \/ \E num \in 0..MaxTarget : SetConcurrentUsers(num)
    \/ \E t \in LockClock : AdvanceClock(t)
    \/ \E c \in Drivers : GetStatsUsers(c)
    \/ \E c \in Drivers : GarpsLock(c)
    \/ \E c \in Drivers : GarpsReturn(c)
    \/ \E c \in Drivers : StopCheck(c)
    \/ \E c \in Drivers : StopClose(c)
    \/ \E c \in Drivers : StopLock(c)
    \/ \E c \in Drivers : StopUser(c)
    \/ \E c \in Drivers : StopUnlock(c)
    \/ \E c \in Drivers : StopWait(c)
    \/ \E c \in Drivers : StopReturn(c)
    \/ \E l \in Loops : ManageStop(l)
    \/ \E l \in Loops : ManageTick(l)
    \/ \E l \in Loops : AdjustAdd(l, MaxObjs)
    \/ \E l \in Loops : AdjustRemove(l)
    \/ \E l \in Loops : AdjustDelete(l)
    \/ \E l \in Loops : AdjustUnlock(l)
    \/ \E s \in Sessions : UserTopStop(s)
    \/ \E s \in Sessions : UserTopDefault(s)
    \/ \E s \in Sessions : UserGet(s)
    \/ \E s \in Sessions : RecordRequestLock(s)
    \/ \E s \in Sessions : RecordRequestStore(s)
    \/ \E s \in Sessions : UserPauseStop(s)
    \/ \E s \in Sessions : UserPauseElapsed(s)

SpecLocks == InitLocks /\ [][NextLocks]_vars

\* GetRandomURL step by step, as the sessions call it: what UserGet does in one
\* step for the other specifications.  The frame of these steps:
CorpusFrame ==
    UNCHANGED <<config, spoofer, sourceIP, filter, genVars, statVars, histVars, loop, drv, ret,
                panicked>>

\* m.mu.RLock(): a read lock, which any number of callers hold together; only
\* a writer would keep it from them, and LoadFromFile has returned.
GetRandomURLRLock(s) ==
    /\ Alive
    /\ s[2].pc = "checked"
    /\ urlManager' = [urlManager EXCEPT !.readers = @ + 1]
    /\ Become(s, [s[2] EXCEPT !.pc = "rlocked"])
    /\ CorpusFrame

\* "if len(m.urls) == 0 { return "https://example.com" }" with the deferred
\* RUnlock; the request for it is on its way.
GetRandomURLFallback(s) ==
    /\ Alive
    /\ s[2].pc = "rlocked"
    /\ Len(urlManager.urls) = 0
    /\ urlManager' = [urlManager EXCEPT !.readers = @ - 1]
    /\ Become(s, [s[2] EXCEPT !.pc = "request"])
    /\ CorpusFrame

\* m.rand.Intn(len(m.urls)), first half: the load of the generator's state.
IntnLoad(s) ==
    /\ Alive
    /\ s[2].pc = "rlocked"
    /\ Len(urlManager.urls) > 0
    /\ Become(s, [s[2] EXCEPT !.pc = "drawing", !.tmp = urlManager.rand])
    /\ UNCHANGED urlManager
    /\ CorpusFrame

\* m.rand.Intn(len(m.urls)), second half: the store of the generator's next
\* state; "return m.urls[index]" with the deferred RUnlock; the request for the
\* URL is on its way.
IntnStore(s) ==
    /\ Alive
    /\ s[2].pc = "drawing"
    /\ urlManager' = [urlManager EXCEPT !.rand = RandStep(s[2].tmp), !.readers = @ - 1]
    /\ Become(s, [s[2] EXCEPT !.pc = "request", !.tmp = 0])
    /\ CorpusFrame

\* The corpus: NumStatSessions sessions of a started generator that pick URLs
\* from a corpus of any size up to CorpusSize; their requests fail.
InitCorpus ==
    /\ config = [Enabled |-> TRUE, ConcurrentUsers |-> NumStatSessions]
    /\ users = [h \in 0..(NumStatSessions - 1) |-> NewUser]
    /\ orphans = EmptyBag
    /\ wg = NumStatSessions
    /\ settled = NumStatSessions
    /\ spoofer = DefaultRange
    /\ sourceIP = NoIP
    /\ filter = NoFilter
    /\ urlManager \in {Loaded(n, seed) : n \in 0..CorpusSize, seed \in 0..(RandPeriod - 1)}
    /\ usersMutex = Unlocked
    /\ running = TRUE
    /\ stopChanClosed = FALSE
    /\ requestCount = 0
    /\ requestsMutex = Unlocked
    /\ requestsStart = 0
    /\ now = 0
    /\ loop = [l \in Loops |-> IF l = 1 THEN [NoLoop EXCEPT !.pc = "select"] ELSE NoLoop]
    /\ drv = [c \in Drivers |-> IdleDriver]
    /\ ret = [c \in Drivers |-> [NoRet EXCEPT !.op = "Start"]]
    /\ panicked = FALSE
    /\ recorded = 0
    /\ consumed = 0

NextCorpus ==
    \/ \E s \in Sessions : UserTopDefault(s)
    \/ \E s \in Sessions : UserExpire(s)
    \/ \E s \in Sessions : GetRandomURLRLock(s)
    \/ \E s \in Sessions : GetRandomURLFallback(s)
    \/ \E s \in Sessions : IntnLoad(s)
    \/ \E s \in Sessions : IntnStore(s)
    \/ \E s \in Sessions : UserGetError(s)
    \/ \E s \in Sessions : UserPauseElapsed(s)

SpecCorpus == InitCorpus /\ [][NextCorpus]_vars

\* ------------------------------------------------------------------ claims
ActiveLoops == {l \in Loops : loop[l].pc # "none"}
Live == DOMAIN users
HeldBy(l) == loop[l].pc = "unlock"

\* C1: for every sequence of targets fed to successive ticks with the
\* configuration enabled, when a tick has finished its adjustment (it is about to
\* release the lock) the live set holds max(target, 0) sessions.
C1_CardinalityIsClampedTarget ==
    \A l \in Loops :
        (HeldBy(l) /\ ~loop[l].disabled) =>
            Cardinality(Live) = Max(loop[l].targetCount, 0)

\* A tick that found a full live set and a negative target has finished.
C1_Witness ==
    \E l \in Loops :
        /\ HeldBy(l) /\ ~loop[l].disabled
        /\ loop[l].targetCount < 0
        /\ loop[l].currentCount = ReconTarget

\* C2: at the step at which Stop() returns, no session's goroutine is still
\* running.
C2_StopReturnsAfterAllSessionsExited ==
    [][\A c \in Drivers : StopReturn(c) => Goroutines' = {}]_vars

\* C3: a tick that observed enabled=false leaves the live set empty, whatever the
\* configured count, and every session it dropped has been cancelled; so does
\* every later tick that observes the flag false.
C3_DisabledTickEmptiesLiveSet ==
    \A l \in Loops :
        (HeldBy(l) /\ loop[l].disabled) =>
            /\ Live = {}
            /\ \A r \in BagToSet(orphans) : r.closed

\* A tick that observed enabled=false with sessions live and a positive
\* configured count has finished.
C3_Witness ==
    \E l \in Loops :
        /\ HeldBy(l) /\ loop[l].disabled
        /\ loop[l].currentCount > 0
        /\ config.ConcurrentUsers > 0

\* C4: every RecordRequest call, whatever calls run concurrently with it, leaves
\* the counter at exactly one more than it was: N calls add N.
C4_EveryRecordAddsOne ==
    [][\A s \in Sessions : RecordRequestStore(s) => requestCount' = requestCount + 1]_vars

\* One call has completed, a second holds the lock and a third caller waits.
C4_Witness ==
    /\ requestCount = 1
    /\ \E s \in Sessions : s[2].pc = "recording"
    /\ \E s \in Sessions : s[2].pc = "request"

\* C5: GetActualRequestsPerSecond returns 0 and changes nothing when less than a
\* second has elapsed; otherwise it returns count/elapsed of the values it found;
\* it zeroes the counter and restarts the window at the current time exactly when
\* more than 60 seconds had elapsed.
C5_Throughput ==
    [][\A c \in Drivers :
        /\ GarpsLock(c) =>
              LET elapsed == now - requestsStart
              IN /\ UNCHANGED <<requestCount, requestsStart>>
                 /\ IF elapsed < MinElapsedSeconds * UnitsPerSecond
                    THEN /\ drv'[c].pc = "idle"
                         /\ ret'[c].op = "GetStats"
                         /\ ret'[c].rps = <<0, 1>>
                    ELSE /\ drv'[c].pc = "garpsReset"
                         /\ drv'[c].rps = <<requestCount * UnitsPerSecond, elapsed>>
        /\ GarpsReturn(c) =>
              /\ ret'[c].op = "GetStats"
              /\ ret'[c].rps = <<requestCount * UnitsPerSecond, drv[c].elapsed>>
              /\ IF drv[c].elapsed > ResetAfterSeconds * UnitsPerSecond
                 THEN requestCount' = 0 /\ requestsStart' = now
                 ELSE UNCHANGED <<requestCount, requestsStart>>
    ]_vars

\* A read has returned a positive rate and reset the window.
C5_Witness ==
    \E c \in Drivers :
        /\ ret[c].op = "GetStats"
        /\ ret[c].rps[1] > 0
        /\ requestsStart > 0
        /\ requestCount = 0

\* C6: every completed increment is either in a count that a resetting read took
\* or in the counter; and the counter and the window start are read and written
\* by one holder of the lock at a time.
C6_NoIncrementLostAcrossReset ==
    /\ recorded = consumed + requestCount
    /\ Cardinality({h \in Live : users[h].pc = "recording"})
         + BagCardinality([r \in {q \in BagToSet(orphans) : q.pc = "recording"} |-> orphans[r]])
         + Cardinality({c \in Drivers : drv[c].pc = "garpsReset"}) <= 1
    /\ \A s \in Sessions : s[2].pc = "recording" => s[2].tmp = requestCount
    /\ \A c \in Drivers : drv[c].pc = "garpsReset" => drv[c].count = requestCount

\* A resetting read took a positive count and an increment has completed since.
C6_Witness ==
    /\ consumed > 0
    /\ requestCount > 0

\* C7: Start() on a running generator returns the "already running" error and
\* changes nothing, in particular launches no loop; after two Start() calls and no
\* Stop() exactly one manageUsers loop exists.
C7_SecondStartRefused ==
    /\ [][\A c \in Drivers :
            (StartCheck(c) /\ running) =>
                /\ ret'[c].op = "Start" /\ ret'[c].err
                /\ UNCHANGED <<config, users, orphans, usersMutex, wg, running,
                               stopChanClosed, requestCount, requestsStart, loop, drv>>
         ]_vars
    /\ [](\A c \in Drivers :
            (ret[c].op = "Start" /\ ret[c].err /\ ~stopChanClosed) =>
                Cardinality(ActiveLoops) = 1)

\* The second Start() has returned its error and no Stop() has begun.
C7_Witness ==
    \E c \in Drivers :
        /\ ret[c].op = "Start" /\ ret[c].err
        /\ ~stopChanClosed
        /\ drv[c].pc = "idle"

\* C8: a tick that finds current < target inserts the handles current,
\* current+1, ..., target-1, one per step in that order, and starts each session
\* as it inserts it; from an empty live set, target 5 gives {0,1,2,3,4}.
C8_AddsSequentialHandles ==
    \A l \in Loops :
        (loop[l].pc \in {"add", "unlock"} /\ loop[l].currentCount < loop[l].targetCount) =>
            /\ Live = 0..(loop[l].i - 1)
            /\ loop[l].pc = "unlock" => loop[l].i = loop[l].targetCount
            /\ \A h \in loop[l].currentCount..(loop[l].i - 1) : users[h] = NewUser
            /\ wg = Cardinality({h \in Live : users[h].pc # "done"}) + BagCardinality(orphans)

\* The tick 0 -> 5 has finished with the handles {0,1,2,3,4}.
C8_Witness ==
    \E l \in Loops :
        /\ HeldBy(l)
        /\ loop[l].currentCount = 0
        /\ loop[l].targetCount = 5
        /\ Live = 0..4

Moves(s, from, to) ==
    /\ s[2].pc = from
    /\ LET r == [s[2] EXCEPT !.pc = to]
       IN IF s[1] # Untracked
          THEN s[1] \in DOMAIN users' /\ users'[s[1]] = r
          ELSE /\ CopiesIn(s[2], orphans') < CopiesIn(s[2], orphans)
               /\ CopiesIn(r, orphans') > CopiesIn(r, orphans)

\* C10, as claimed: no session whose cancellation signal has been fired begins a
\* request.
C10_NoRequestAfterSignal ==
    [][\A s \in Sessions : s[2].closed => ~Moves(s, "checked", "request")]_vars

\* C10, amended: no session whose cancellation signal has been fired passes the
\* cancellation check at the top of its loop again.
C10_NoTopCheckPassedAfterSignal ==
    [][\A s \in Sessions : s[2].closed => ~Moves(s, "top", "checked")]_vars

\* A cancelled session stands at the top of its loop.
C10_Witness ==
    \E s \in Sessions : s[2].closed /\ s[2].pc = "top"

InStop(c) == drv[c].pc \in {"stopClose", "stopLock", "stopUsers", "stopWait", "stopDone"}

\* C11: when one caller calls Start(), Stop(), Start(), Stop() in turn, no Stop()
\* faults at its close of the stop channel, and after every Start() that returned
\* nil a manageUsers loop is there until the next call.
C11_RestartKeepsWorking ==
    \A c \in Drivers :
        /\ ~(panicked /\ drv[c].pc = "stopClose")
        /\ (drv[c].pc = "idle" /\ ret[c].op = "Start" /\ ~ret[c].err) => ActiveLoops # {}

\* C12: a Stop() that has begun on a running generator is never cut short: the
\* process does not panic while the call is in progress.
C12_StopIsNeverCutShort ==
    \A c \in Drivers : InStop(c) => ~panicked

\* The BrowserUsers that a user.Stop() in progress may be applied to next.
StopTargets ==
    {users[loop[l].i] : l \in {k \in Loops : loop[k].pc = "remove" /\ loop[k].i \in Live}}
        \cup UNION {{users[h] : h \in drv[c].iter} : c \in {d \in Drivers : drv[d].pc = "stopUsers"}}

\* C13: Stop() on a session whose goroutine has returned and whose stop channel is
\* still open closes the channel and changes nothing else: no panic, the same
\* WaitGroup counter, every other session as it was; and a user.Stop() panics
\* only on a session whose channel was closed before.
C13_StopAfterExitIsHarmless ==
    [][/\ \A h \in Live :
              (/\ users[h].pc = "done" /\ ~users[h].closed
               /\ h \in DOMAIN users' /\ users'[h].closed) =>
                  /\ users'[h] = [users[h] EXCEPT !.closed = TRUE, !.late = TRUE]
                  /\ panicked' = panicked
                  /\ wg' = wg
                  /\ orphans' = orphans
                  /\ \A k \in Live \ {h} : k \in DOMAIN users' /\ users'[k] = users[k]
       /\ (panicked' /\ ~panicked /\ \A c \in Drivers : drv[c].pc # "stopClose") =>
              \E u \in StopTargets : u.closed
    ]_vars

\* Stop() has been called on a session that had returned on its own, while
\* another session runs.
C13_Witness ==
    /\ ~panicked
    /\ \E h \in Live :
          /\ users[h].late
          /\ \E k \in Live \ {h} : users[k].pc \notin {"done"} /\ ~users[k].closed

\* The goroutines of sessions that have been started and have not returned.
RunningSessions ==
    Cardinality({h \in Live : users[h].pc # "done"}) + BagCardinality(orphans)

\* C14: the WaitGroup counter is the number of sessions started and not yet
\* returned, and is never negative; it goes up only by one, in a step of the
\* adding loop, which holds the users lock; it goes down only by one.
C14_JoinCounterCountsRunningSessions ==
    /\ [](wg = RunningSessions /\ wg >= 0)
    /\ [][(wg' > wg) =>
              (/\ wg' = wg + 1
               /\ \E l \in Loops : loop[l].pc = "add" /\ usersMutex = ByLoop(l))]_vars
    /\ [][(wg' < wg) => (wg' = wg - 1)]_vars

\* A session has returned by lifetime expiry and another, dropped from the map
\* and cancelled, still runs: the counter is one.
C14_Witness ==
    /\ wg = 1
    /\ \E h \in Live : users[h].pc = "done" /\ ~users[h].closed
    /\ BagCardinality(orphans) = 1

TickPcs == {"add", "remove", "delete", "unlock"}

\* C15: a tick is in progress only while its loop holds the users lock, so ticks
\* do not overlap; and the live count GetStats reads is the clamped target of the
\* last completed tick (0 before the first), never the count of a tick in
\* progress.
C15_SnapshotSeesCompletedTicksOnly ==
    /\ [](\A l \in Loops : loop[l].pc \in TickPcs => usersMutex = ByLoop(l))
    /\ [][\A c \in Drivers : GetStatsUsers(c) => drv'[c].active = settled]_vars
    /\ [](usersMutex = Unlocked => Cardinality(Live) = settled)

\* GetStats has read a positive live count and holds it while the next tick is in
\* progress.
C15_Witness ==
    \E c \in Drivers :
        /\ drv[c].pc = "garps"
        /\ drv[c].active > 0
        /\ \E l \in Loops : loop[l].pc \in TickPcs /\ Cardinality(Live) # drv[c].active

\* C16: a session in its pause whose stop channel is closed can return at once
\* (the case is ready without the pause elapsing), and whatever it does next it
\* begins no request: it returns, or goes to the loop top.  A session in its pause
\* can always go back to the loop top when the pause elapses.
C16_PauseIsInterruptible ==
    /\ [](\A s \in Sessions :
            (Alive /\ s[2].pc = "pause") =>
                /\ s[2].closed => ENABLED UserPauseStop(s)
                /\ ENABLED UserPauseElapsed(s))
    /\ [][\A s \in Sessions :
            (s[2].pc = "pause" /\ s[2].closed) =>
                /\ \A to \in {"checked", "request", "recording"} : ~Moves(s, "pause", to)
                /\ UserPauseStop(s) => wg' = wg - 1
         ]_vars

\* A session is in its pause and its stop channel has been closed.
C16_Witness ==
    /\ Alive
    /\ \E s \in Sessions : s[2].pc = "pause" /\ s[2].closed

\* C17: a request that fails leaves the session running and in its pause, as a
\* request that succeeded does, and changes nothing of the generator: not the
\* WaitGroup, not the counter, not a caller's result, and it does not panic.
C17_FailedRequestIsNotFatal ==
    /\ [][\A s \in Sessions :
            UserGetError(s) =>
                /\ Moves(s, "request", "pause")
                /\ UNCHANGED <<wg, running, stopChanClosed, requestCount, requestsStart,
                               recorded, loop, drv, ret, panicked>>
         ]_vars
    /\ [](\A s \in Sessions : s[2].pc = "pause" => s[2].tmp = 0)

\* No request has been counted and a session is in its pause: its request failed.
C17_Witness ==
    /\ recorded = 0
    /\ \E s \in Sessions : s[2].pc = "pause"

\* C18: a session leaves a request either with a response, and then the callback
\* adds exactly one to the counter before Get returns to the loop, or with an
\* error, and then the counter is untouched; so the counter and the counts the
\* resets took add up to the requests that received a response.
C18_CallbackOncePerResponse ==
    /\ [][\A s \in Sessions :
            /\ Moves(s, "request", "pause") =>
                   UNCHANGED <<requestCount, recorded>>
            /\ Moves(s, "recording", "pause") =>
                   requestCount' = requestCount + 1 /\ recorded' = recorded + 1
            /\ \A to \in {"top", "checked", "request", "done"} : ~Moves(s, "recording", to)
         ]_vars
    /\ [](requestCount + consumed = recorded)

\* Every session has finished a request and one request in all was counted:
\* another one failed.
C18_Witness ==
    /\ requestCount = 1
    /\ recorded = 1
    /\ Cardinality(Live) = NumStatSessions
    /\ \A h \in Live : users[h].pc = "pause"

\* C19: Stop() on a generator that is not running returns at once: no channel is
\* closed, no lock taken, and the running flag, the map, the sessions and the
\* counters are as they were.
C19_StopWhenIdleIsNoOp ==
    [][\A c \in Drivers :
          (StopCheck(c) /\ ~running) =>
              /\ ret'[c].op = "Stop"
              /\ UNCHANGED <<config, users, orphans, usersMutex, wg, running,
                             stopChanClosed, requestCount, requestsMutex, requestsStart,
                             loop, drv, panicked>>
    ]_vars

\* Stop() has returned at once on a stopped generator whose map still holds
\* sessions.
C19_Witness ==
    \E c \in Drivers :
        /\ drv[c].pc = "idle"
        /\ ret[c].op = "Stop" /\ ret[c].err
        /\ ~running
        /\ Live # {}

\* C20: for every range NewIPSpoofer accepts, the single-address ranges and the
\* full range included, GetRandomIP does not panic and returns an address that is
\* numerically at least the start and at most the end of the range.
C20_RandomIPWithinRange ==
    /\ ~panicked
    /\ sourceIP # NoIP =>
          /\ ipToUint32(spoofer.startIP) <= ipToUint32(sourceIP)
          /\ ipToUint32(sourceIP) <= ipToUint32(spoofer.endIP)

\* How often candidate u occurs in the list.
Occurrences(list, u) == Cardinality({k \in 1..Len(list) : list[k] = u})

\* C21: for every candidate list and every options value, when FilterURLs has
\* returned, every candidate has been taken off the channel and handled by a
\* worker, and the list returned holds each candidate as often as the input does
\* when it passes the enabled checks and not at all when it fails one.
C21_FilterReturnsThePassingCandidates ==
    filter.pc = "returned" =>
        /\ filter.next > Len(filter.urls)
        /\ \A w \in 1..MaxWorkers : filter.worker[w].pc \in {"none", "done"}
        /\ \A u \in Candidates :
              Occurrences(filter.result, u) =
                  IF Valid(u, filter.options) THEN Occurrences(filter.urls, u) ELSE 0

\* What a manageUsers loop does in one step: its select takes the ticker's case
\* and adjustActiveUsers begins; user.Start() of a new session; user.Stop();
\* delete(g.users, i).
LoopBegins(l) == loop[l].pc = "select" /\ loop'[l].pc \in {"add", "remove", "unlock"}
LoopCreates(l) == loop[l].pc = "add" /\ loop'[l] # loop[l]
LoopCancels(l) == loop[l].pc = "remove" /\ loop'[l].pc = "delete"
LoopRemoves(l) == loop[l].pc = "delete" /\ loop'[l] # loop[l]

\* C22: once Stop() has closed g.stopChan, no manageUsers loop begins another
\* reconciliation, and none creates, cancels or removes a session.
C22_NoReconciliationAfterSignal ==
    [][stopChanClosed =>
          \A l \in Loops :
              ~(LoopBegins(l) \/ LoopCreates(l) \/ LoopCancels(l) \/ LoopRemoves(l))]_vars

\* C23: no user.Stop() is applied to a session whose cancellation signal was
\* fired before.  A second close(u.stopChan) panics, so: no goroutine has died
\* in a user.Stop() on a session that was cancelled already.
C23_CancelledAtMostOnce ==
    ~(panicked /\ \E u \in StopTargets : u.closed)

\* C24: with the configuration enabled and a constant target T > 0, again and
\* again the number of sessions whose goroutines run is T: a session that has
\* returned because its lifetime was over is replaced by a later tick.
C24_PopulationIsRestored ==
    []<>(RunningSessions = config.ConcurrentUsers)

\* C25: whenever g.usersMutex is free, no session that g.users holds has had its
\* stop channel closed: whoever cancels a session deletes it from the map before
\* releasing the lock.
C25_NoCancelledSessionIsTracked ==
    usersMutex = Unlocked => \A h \in Live : ~users[h].closed

\* C26: whenever g.usersMutex is free, the handles of g.users are exactly
\* 0 .. n-1 for n the number of entries (the map's keys are unique as it is: no
\* two sessions share one); and no iteration of the adding loop stores a new
\* session under a handle that g.users still holds.
C26_HandlesAreContiguous ==
    /\ usersMutex = Unlocked => Live = 0..(Cardinality(Live) - 1)
    /\ \A l \in Loops : loop[l].pc = "add" => loop[l].i \notin Live

\* The lock is free and three sessions are live, after a tick that removed
\* sessions (some of their goroutines still run) and a tick that added one.
C26_Witness ==
    /\ usersMutex = Unlocked
    /\ Live = 0..2
    /\ settled = 3
    /\ orphans # EmptyBag
    /\ \E h \in Live : users[h] = NewUser

\* C27: at most one manageUsers loop is active at any time, whatever Start() and
\* Stop() calls run at the same time.
C27_AtMostOneLoop ==
    Cardinality(ActiveLoops) <= 1

\* C28: no goroutine holds g.usersMutex and g.requestsMutex at the same time;
\* whoever holds g.requestsMutex can finish and release it whatever the state of
\* g.usersMutex (so the two locks cannot deadlock); and a session that is about
\* to record a response finds RecordRequest open whenever g.requestsMutex is
\* free, also while a tick, a GetStats or a Stop() holds g.usersMutex.
C28_LocksAreNeverNested ==
    /\ \A c \in Drivers : ~(usersMutex = ByDriver(c) /\ requestsMutex = ByDriver(c))
    /\ usersMutex[1] \in {"free", "loop", "driver"}
    /\ requestsMutex[1] \in {"free", "user", "driver"}
    /\ (Alive /\ requestsMutex = ByUser) =>
           \E s \in Sessions : s[2].pc = "recording" /\ ENABLED RecordRequestStore(s)
    /\ \A c \in Drivers : (Alive /\ requestsMutex = ByDriver(c)) => ENABLED GarpsReturn(c)
    /\ \A s \in Sessions :
           (Alive /\ s[2].pc = "request" /\ requestCount < MaxCount
                  /\ requestsMutex = Unlocked) => ENABLED RecordRequestLock(s)

\* After a GetStats has returned, a session is inside RecordRequest, holding
\* g.requestsMutex, while a tick holds g.usersMutex and another session waits
\* with its response.
C28_Witness ==
    /\ \E l \in Loops : usersMutex = ByLoop(l)
    /\ requestsMutex = ByUser
    /\ \E s \in Sessions : s[2].pc = "request"
    /\ \E c \in Drivers : ret[c].op = "GetStats"

\* The sessions that are inside m.rand.Intn: they have loaded the generator's
\* state and have not stored the next one yet.
Drawing == {h \in Live : users[h].pc = "drawing"}

\* C29: no two sessions are inside the corpus's generator at the same time: a
\* draw, from the load of the generator's state to its store, excludes every
\* other draw.
C29_DrawsAreMutuallyExclusive ==
    Cardinality(Drawing) <= 1
====
